---- MODULE Spec2Model ----
(***************************************************************************)
(* A model of the celestia-jukebox full node: the genesis replay           *)
(* (sync_from_genesis), the live subscription intake and drain             *)
(* (sync_incoming_blocks), the blob codec (Batch::try_from) and the queue  *)
(* state machine (State::process_tx, State::cleanup_queue).                *)
(***************************************************************************)
EXTENDS Integers, Sequences, FiniteSets, TLC

(***************************************************************************)
(* Bounds of the model.                                                    *)
(***************************************************************************)
MaxHeight == 3
MaxTime == 3
MaxDuration == 2
MaxSongs == 3
MaxRequests == 3
MaxBacklog == 2

(* mpsc::channel(100), fullnode.rs:164 *)
ChannelCapacity == 100

VARIABLES
    now,                    \* SystemTime::now(), in seconds
    chain,                  \* the DA network: chain[h] is the namespace's blobs at height h
    start_height,           \* FullNode.start_height
    state,                  \* FullNode.state: [history, queue]
    state_lock,             \* holder of the Mutex around State
    genesis_sync_complete,  \* FullNode.genesis_sync_complete
    pc,                     \* position of each task
    network_height,         \* sync_from_genesis: the head height read at line 132
    height,                 \* sync_from_genesis: the loop variable of line 139
    job,                    \* process_l1_block: the decoded txs each caller still has to apply
    sub_next,               \* the next height the subscription will deliver
    item,                   \* intake: the blob_response in hand
    channel,                \* the mpsc channel between intake and drain
    processed,              \* log: the heights handed to process_l1_block, in order
    sent,                   \* log: the heights the intake sent into the channel, in order
    errored,                \* log: the heights the subscription delivered as an error
    reader,                 \* the GET handler in flight: "idle", or the route it serves
    request,                \* the POST /send requests: position and transaction of each
    pending_transactions,   \* FullNode.pending_transactions
    pending_lock,           \* holder of the Mutex around pending_transactions
    post_pc,                \* position of the batch-posting task
    batch,                  \* post_pending_batch: the Batch drained at line 100
    submitted,              \* log: the batches handed to blob_submit and what it returned
    enqueued                \* log: the transactions pushed by queue_transaction, in order

(* The variables of the web server and of the batch-posting task. *)
api_vars == <<reader, request, pending_transactions, pending_lock, post_pc, batch,
              submitted, enqueued>>

vars == <<now, chain, start_height, state, state_lock, genesis_sync_complete, pc,
          network_height, height, job, sub_next, item, channel, processed, sent, errored,
          api_vars>>

Max(a, b) == IF a >= b THEN a ELSE b

(***************************************************************************)
(* Links, transactions and blobs.                                          *)
(*                                                                         *)
(* A link is a string; the model keeps of it the video it names and which  *)
(* of the forms of extract_video_id it has: the canonical watch URL,       *)
(* another accepted form, or a string no pattern matches.                  *)
(***************************************************************************)
Link(vid, form) == [vid |-> vid, form |-> form]

(* tx.rs:26-37: Ok(canonical URL of the video id) or Err *)
YoutubeLink_new(url) ==
    IF url.form = "invalid"
    THEN [ok |-> FALSE, link |-> url]
    ELSE [ok |-> TRUE, link |-> Link(url.vid, "canonical")]

(* state.rs:61-68 *)
validate_tx(tx) == YoutubeLink_new(tx.url).ok

(* A JSON value that is a well-formed {"AddToQueue": {"url": ...}} object, or not. *)
Tx(vid, form) == [tag |-> "AddToQueue", url |-> Link(vid, form)]
Junk == [tag |-> "Unknown", url |-> Link(<<0, 0>>, "invalid")]
IsTransaction(v) == v.tag = "AddToQueue"

(* The data of a blob: a JSON array of values, or one JSON object. *)
ArrayBlob(items) == [json |-> "array", items |-> items]
ObjectBlob(v) == [json |-> "object", items |-> <<v>>]

(* fullnode.rs:37-51: as a Batch, else as one Transaction, else an error *)
Batch_try_from(blob) ==
    IF blob.json = "array" /\ \A i \in 1..Len(blob.items) : IsTransaction(blob.items[i])
    THEN [ok |-> TRUE, txs |-> blob.items]
    ELSE IF blob.json = "object" /\ IsTransaction(blob.items[1])
    THEN [ok |-> TRUE, txs |-> <<blob.items[1]>>]
    ELSE [ok |-> FALSE, txs |-> <<>>]

(* A faulty DecodeBlobs: the first blob that fails to decode ends the block. *)
RECURSIVE DecodeBlobs_abort(_)
DecodeBlobs_abort(blobs) ==
    IF blobs = <<>> THEN <<>>
    ELSE LET b == Batch_try_from(Head(blobs))
         IN IF b.ok THEN b.txs \o DecodeBlobs_abort(Tail(blobs)) ELSE <<>>

(* fullnode.rs:111-120: flat_map of the decoded batches, a failed blob giving none *)
RECURSIVE DecodeBlobs(_)
DecodeBlobs(blobs) ==
    IF blobs = <<>> THEN <<>>
    ELSE LET b == Batch_try_from(Head(blobs))
         IN (IF b.ok THEN b.txs ELSE <<>>) \o DecodeBlobs(Tail(blobs))

(* Option<Vec<Blob>> *)
None == [some |-> FALSE, blobs |-> <<>>]
Some(blobs) == [some |-> TRUE, blobs |-> blobs]

(* What a block of height h may hold under the namespace: nothing, or three
   blobs: a batch of a transaction with an invalid link and one with a valid
   link, an array that is no batch, and a single transaction. *)
BlockChoices(h) ==
    { None,
      Some(<<ArrayBlob(<<Tx(<<h, 2>>, "invalid"), Tx(<<h, 1>>, "canonical")>>),
             ArrayBlob(<<Tx(<<h, 3>>, "canonical"), Junk>>),
             ObjectBlob(Tx(<<h, 0>>, "short"))>>) }

(***************************************************************************)
(* The queue state machine, state.rs.                                      *)
(***************************************************************************)
QueuedSong(start_time, duration, link) ==
    [start_time |-> start_time, duration |-> duration, link |-> link]

(* state.rs:24-29 *)
State_new == [history |-> <<>>, queue |-> <<>>]

(* The length in seconds of the video a link names: the second part of its id. *)
VideoLength(url) == url.vid[2]

(* tx.rs:43-72: what the lookup may answer, the length of the video or an error *)
get_video_duration(url) ==
    {[ok |-> FALSE, duration |-> 0], [ok |-> TRUE, duration |-> VideoLength(url)]}

(* A faulty new_start_time: the time of the call, whatever the queue holds. *)
new_start_time_now(s, t) == t

(* state.rs:73-77 *)
new_start_time(s, t) ==
    IF s.queue = <<>> THEN t
    ELSE s.queue[Len(s.queue)].start_time + s.queue[Len(s.queue)].duration

(* A faulty process_tx: the result of validate_tx is not looked at. *)
process_tx_no_validate(s, tx, t, r) ==
    IF ~r.ok THEN [ok |-> FALSE, state |-> s]
    ELSE [ok |-> TRUE,
          state |-> [s EXCEPT !.queue = Append(@, QueuedSong(new_start_time(s, t), r.duration, tx.url))]]

(* state.rs:70-90: the State after process_tx(tx) called at time t, the lookup answering r *)
process_tx(s, tx, t, r) ==
    IF ~validate_tx(tx) THEN [ok |-> FALSE, state |-> s]
    ELSE IF ~r.ok THEN [ok |-> FALSE, state |-> s]
    ELSE [ok |-> TRUE,
          state |-> [s EXCEPT !.queue = Append(@, QueuedSong(new_start_time(s, t), r.duration, tx.url))]]

(* A faulty Finished: a song is over as soon as it has started. *)
Finished_early(song, t) == t >= song.start_time

(* A faulty Finished: > in place of >=. *)
Finished_strict(song, t) == t - song.start_time > song.duration

(* state.rs:49: the song has finished playing *)
Finished(song, t) == t - song.start_time >= song.duration

(* A faulty cleanup_queue: the popped song is not pushed to history. *)
RECURSIVE cleanup_queue_drop(_, _)
cleanup_queue_drop(s, t) ==
    IF s.queue = <<>> THEN [panicked |-> FALSE, state |-> s]
    ELSE IF t < Head(s.queue).start_time THEN [panicked |-> TRUE, state |-> s]
    ELSE IF Finished(Head(s.queue), t)
    THEN cleanup_queue_drop([history |-> s.history, queue |-> Tail(s.queue)], t)
    ELSE [panicked |-> FALSE, state |-> s]

(* state.rs:45-59: panicked is the unwrap of line 49 failing on a start_time after t *)
RECURSIVE cleanup_queue(_, _)
cleanup_queue(s, t) ==
    IF s.queue = <<>> THEN [panicked |-> FALSE, state |-> s]
    ELSE IF t < Head(s.queue).start_time THEN [panicked |-> TRUE, state |-> s]
    ELSE IF Finished(Head(s.queue), t)
    THEN cleanup_queue([history |-> Append(s.history, Head(s.queue)), queue |-> Tail(s.queue)], t)
    ELSE [panicked |-> FALSE, state |-> s]

(***************************************************************************)
(* The node, fullnode.rs.                                                  *)
(***************************************************************************)
(* The start heights the node is run with. *)
StartHeights == {1, 2}

Appliers == {"genesis", "drain"}

NoItem == [height |-> 0, blobs |-> None]

(* The POST /send requests of a run, and a request that has not arrived. *)
Requests == 1..MaxRequests
NoRequest == [pc |-> "none", tx |-> Junk]

(* fullnode.rs:60-68 and the tasks of start and start_sync before their first step *)
Init ==
    /\ now = 0
    /\ chain = <<>>
    /\ start_height \in StartHeights
    /\ state = State_new
    /\ state_lock = "free"
    /\ genesis_sync_complete = FALSE
    /\ pc = [genesis |-> "head", drain |-> "init", intake |-> "idle", sync |-> "joining"]
    /\ network_height = 0
    /\ height = 0
    /\ job = [t \in Appliers |-> <<>>]
    /\ sub_next = 0
    /\ item = NoItem
    /\ channel = <<>>
    /\ processed = <<>>
    /\ sent = <<>>
    /\ errored = {}
    /\ reader = "idle"
    /\ request = [r \in Requests |-> NoRequest]
    /\ pending_transactions = <<>>
    /\ pending_lock = "free"
    /\ post_pc = "tick"
    /\ batch = <<>>
    /\ submitted = <<>>
    /\ enqueued = <<>>

(* The DA network publishes the next block, one block interval after the last. *)
NewBlock ==
    /\ Len(chain) < MaxHeight
    /\ \E b \in BlockChoices(Len(chain) + 1) : chain' = Append(chain, b)
    /\ now' = now + 1
    /\ UNCHANGED <<start_height, state, state_lock, genesis_sync_complete, pc,
                   network_height, height, job, sub_next, item, channel, processed, sent, errored, api_vars>>

(* fullnode.rs:132-133, the head height is read *)
header_network_head ==
    /\ pc.genesis = "head"
    /\ network_height' = Len(chain)
    /\ height' = start_height
    /\ pc' = [pc EXCEPT !.genesis = "loop"]
    /\ UNCHANGED <<now, chain, start_height, state, state_lock, genesis_sync_complete,
                   job, sub_next, item, channel, processed, sent, errored, api_vars>>

(* fullnode.rs:132, the ? on an adapter error: sync_from_genesis returns Err *)
header_network_head_err ==
    /\ pc.genesis = "head"
    /\ pc' = [pc EXCEPT !.genesis = "failed"]
    /\ UNCHANGED <<now, chain, start_height, state, state_lock, genesis_sync_complete,
                   network_height, height, job, sub_next, item, channel, processed, sent, errored, api_vars>>

(* fullnode.rs:139-145, one height of the loop: fetched, decoded, handed to process_l1_block *)
blob_get_all ==
    /\ pc.genesis = "loop"
    /\ height < network_height
    /\ IF chain[height].some
       THEN /\ job' = [job EXCEPT !.genesis = DecodeBlobs(chain[height].blobs)]
            /\ processed' = Append(processed, [src |-> "genesis", height |-> height])
            /\ pc' = [pc EXCEPT !.genesis = "lock"]
            /\ UNCHANGED height
       ELSE /\ height' = height + 1
            /\ UNCHANGED <<job, processed, pc>>
    /\ UNCHANGED <<now, chain, start_height, state, state_lock, genesis_sync_complete,
                   network_height, sub_next, item, channel, sent, errored, api_vars>>

(* fullnode.rs:141, the ? on an adapter error *)
blob_get_all_err ==
    /\ pc.genesis = "loop"
    /\ height < network_height
    /\ pc' = [pc EXCEPT !.genesis = "failed"]
    /\ UNCHANGED <<now, chain, start_height, state, state_lock, genesis_sync_complete,
                   network_height, height, job, sub_next, item, channel, processed, sent, errored, api_vars>>

(* fullnode.rs:148, Notify::notify_waiters: wakes the tasks waiting now, stores no permit *)
notify_waiters(p) == IF p.drain = "waiting" THEN [p EXCEPT !.drain = "recv"] ELSE p

(* A faulty sync_complete: completion is announced from inside the loop. *)
sync_complete_early ==
    /\ pc.genesis = "loop"
    /\ genesis_sync_complete' = TRUE
    /\ pc' = [notify_waiters(pc) EXCEPT !.genesis = "done"]
    /\ UNCHANGED <<now, chain, start_height, state, state_lock, network_height, height,
                   job, sub_next, item, channel, processed, sent, errored, api_vars>>

(* fullnode.rs:146-149, the loop is over *)
sync_complete ==
    /\ pc.genesis = "loop"
    /\ height >= network_height
    /\ genesis_sync_complete' = TRUE
    /\ pc' = [notify_waiters(pc) EXCEPT !.genesis = "done"]
    /\ UNCHANGED <<now, chain, start_height, state, state_lock, network_height, height,
                   job, sub_next, item, channel, processed, sent, errored, api_vars>>

(* Where a caller of process_l1_block goes on: line 139 (next height) or line 202 (recv). *)
Resume(t) == IF t = "genesis" THEN "loop" ELSE "recv"
NextHeight(t) == IF t = "genesis" THEN height + 1 ELSE height

(* fullnode.rs:122, the State lock is taken; with no tx to apply it is dropped at once *)
process_l1_block_lock(t) ==
    /\ pc[t] = "lock"
    /\ state_lock = "free"
    /\ IF job[t] = <<>>
       THEN /\ pc' = [pc EXCEPT ![t] = Resume(t)]
            /\ height' = NextHeight(t)
            /\ UNCHANGED state_lock
       ELSE /\ pc' = [pc EXCEPT ![t] = "apply"]
            /\ state_lock' = t
            /\ UNCHANGED height
    /\ UNCHANGED <<now, chain, start_height, state, genesis_sync_complete, network_height,
                   job, sub_next, item, channel, processed, sent, errored, api_vars>>

(* A faulty process_l1_block_tx: the guard of line 122 outlives the call. *)
process_l1_block_tx_leak(t) ==
    /\ pc[t] = "apply"
    /\ \E r \in get_video_duration(Head(job[t]).url) :
          state' = process_tx(state, Head(job[t]), now, r).state
    /\ job' = [job EXCEPT ![t] = Tail(@)]
    /\ IF Tail(job[t]) = <<>>
       THEN /\ pc' = [pc EXCEPT ![t] = Resume(t)]
            /\ height' = NextHeight(t)
            /\ UNCHANGED state_lock
       ELSE UNCHANGED <<pc, height, state_lock>>
    /\ UNCHANGED <<now, chain, start_height, genesis_sync_complete, network_height,
                   sub_next, item, channel, processed, sent, errored, api_vars>>

(* fullnode.rs:123-129, one tx of the loop; after the last one the lock is dropped *)
process_l1_block_tx(t) ==
    /\ pc[t] = "apply"
    /\ \E r \in get_video_duration(Head(job[t]).url) :
          state' = process_tx(state, Head(job[t]), now, r).state
    /\ job' = [job EXCEPT ![t] = Tail(@)]
    /\ IF Tail(job[t]) = <<>>
       THEN /\ pc' = [pc EXCEPT ![t] = Resume(t)]
            /\ height' = NextHeight(t)
            /\ state_lock' = "free"
       ELSE UNCHANGED <<pc, height, state_lock>>
    /\ UNCHANGED <<now, chain, start_height, genesis_sync_complete, network_height,
                   sub_next, item, channel, processed, sent, errored, api_vars>>

(* A faulty drain_start: the drain goes on to recv without the wait of line 199. *)
drain_start_no_wait ==
    /\ pc.drain = "init"
    /\ pc' = [pc EXCEPT !.drain = "recv", !.intake = "subscribe"]
    /\ UNCHANGED <<now, chain, start_height, state, state_lock, genesis_sync_complete,
                   network_height, height, job, sub_next, item, channel, processed, sent, errored, api_vars>>

(* fullnode.rs:164-199: the channel, the subscription task spawned, the wait begun *)
drain_start ==
    /\ pc.drain = "init"
    /\ pc' = [pc EXCEPT !.drain = "waiting", !.intake = "subscribe"]
    /\ UNCHANGED <<now, chain, start_height, state, state_lock, genesis_sync_complete,
                   network_height, height, job, sub_next, item, channel, processed, sent, errored, api_vars>>

(* fullnode.rs:202-204, a notification is received *)
recv ==
    /\ pc.drain = "recv"
    /\ channel # <<>>
    /\ job' = [job EXCEPT !.drain = DecodeBlobs(Head(channel).blobs)]
    /\ processed' = Append(processed, [src |-> "drain", height |-> Head(channel).height])
    /\ channel' = Tail(channel)
    /\ pc' = [pc EXCEPT !.drain = "lock"]
    /\ UNCHANGED <<now, chain, start_height, state, state_lock, genesis_sync_complete,
                   network_height, height, sub_next, item, sent, errored, api_vars>>

(* fullnode.rs:202-207, recv gives None: the sender is gone and the channel is empty *)
recv_closed ==
    /\ pc.drain = "recv"
    /\ channel = <<>>
    /\ pc.intake \in {"ended", "panicked"}
    /\ pc' = [pc EXCEPT !.drain = "returned"]
    /\ UNCHANGED <<now, chain, start_height, state, state_lock, genesis_sync_complete,
                   network_height, height, job, sub_next, item, channel, processed, sent, errored, api_vars>>

(* fullnode.rs:170-173, the subscription starts: it is a stream of the publications
   to come, the blocks after the head of this moment *)
blob_subscribe ==
    /\ pc.intake = "subscribe"
    /\ sub_next' = Len(chain) + 1
    /\ pc' = [pc EXCEPT !.intake = "next"]
    /\ UNCHANGED <<now, chain, start_height, state, state_lock, genesis_sync_complete,
                   network_height, height, job, item, channel, processed, sent, errored, api_vars>>

(* fullnode.rs:173, the unwrap of a failed subscribe *)
blob_subscribe_err ==
    /\ pc.intake = "subscribe"
    /\ pc' = [pc EXCEPT !.intake = "panicked"]
    /\ UNCHANGED <<now, chain, start_height, state, state_lock, genesis_sync_complete,
                   network_height, height, job, sub_next, item, channel, processed, sent, errored, api_vars>>

(* fullnode.rs:175-182, the subscription delivers the next block *)
blobsub_next ==
    /\ pc.intake = "next"
    /\ sub_next <= Len(chain)
    /\ item' = [height |-> sub_next, blobs |-> chain[sub_next]]
    /\ sub_next' = sub_next + 1
    /\ pc' = [pc EXCEPT !.intake = "cleanup"]
    /\ UNCHANGED <<now, chain, start_height, state, state_lock, genesis_sync_complete,
                   network_height, height, job, channel, processed, sent, errored, api_vars>>

(* fullnode.rs:190-192, the subscription delivers an error in place of a block *)
blobsub_next_err ==
    /\ pc.intake = "next"
    /\ sub_next <= Len(chain)
    /\ sub_next' = sub_next + 1
    /\ errored' = errored \cup {sub_next}
    /\ UNCHANGED <<now, chain, start_height, state, state_lock, genesis_sync_complete, pc,
                   network_height, height, job, item, channel, processed, sent, api_vars>>

(* fullnode.rs:175, the subscription ends: the task returns and drops the sender *)
blobsub_end ==
    /\ pc.intake = "next"
    /\ pc' = [pc EXCEPT !.intake = "ended"]
    /\ UNCHANGED <<now, chain, start_height, state, state_lock, genesis_sync_complete,
                   network_height, height, job, sub_next, item, channel, processed, sent, errored, api_vars>>

(* fullnode.rs:183-184, the lock is taken for cleanup_queue and dropped with the statement *)
intake_cleanup ==
    /\ pc.intake = "cleanup"
    /\ state_lock = "free"
    /\ LET r == cleanup_queue(state, now)
       IN IF r.panicked
          THEN /\ pc' = [pc EXCEPT !.intake = "panicked"]
               /\ item' = NoItem
               /\ UNCHANGED state
          ELSE /\ state' = r.state
               /\ pc' = [pc EXCEPT !.intake = IF item.blobs.some THEN "send" ELSE "next"]
               /\ item' = IF item.blobs.some THEN item ELSE NoItem
    /\ UNCHANGED <<now, chain, start_height, state_lock, genesis_sync_complete,
                   network_height, height, job, sub_next, channel, processed, sent, errored, api_vars>>

(* fullnode.rs:185, send waits while the channel is full *)
send ==
    /\ pc.intake = "send"
    /\ Len(channel) < ChannelCapacity
    /\ channel' = Append(channel, [height |-> item.height, blobs |-> item.blobs.blobs])
    /\ sent' = Append(sent, item.height)
    /\ item' = NoItem
    /\ pc' = [pc EXCEPT !.intake = "next"]
    /\ UNCHANGED <<now, chain, start_height, state, state_lock, genesis_sync_complete,
                   network_height, height, job, sub_next, processed, errored, api_vars>>

(* fullnode.rs:221-223, try_join! of the two handles: both tasks have returned *)
start_sync_join ==
    /\ pc.sync = "joining"
    /\ pc.genesis \in {"done", "failed"}
    /\ pc.drain = "returned"
    /\ pc' = [pc EXCEPT !.sync = "returned"]
    /\ UNCHANGED <<now, chain, start_height, state, state_lock, genesis_sync_complete,
                   network_height, height, job, sub_next, item, channel, processed, sent, errored, api_vars>>

sync_from_genesis ==
    \/ header_network_head
    \/ header_network_head_err
    \/ blob_get_all
    \/ blob_get_all_err
    \/ sync_complete
    \/ process_l1_block_lock("genesis")
    \/ process_l1_block_tx("genesis")

subscription ==
    \/ blob_subscribe
    \/ blob_subscribe_err
    \/ blobsub_next
    \/ blobsub_next_err
    \/ blobsub_end
    \/ intake_cleanup
    \/ send

sync_incoming_blocks ==
    \/ drain_start
    \/ recv
    \/ recv_closed
    \/ process_l1_block_lock("drain")
    \/ process_l1_block_tx("drain")

Next ==
    \/ NewBlock
    \/ sync_from_genesis
    \/ subscription
    \/ sync_incoming_blocks
    \/ start_sync_join

Spec == Init /\ [][Next]_vars

(***************************************************************************)
(* The node with a full channel: the run is taken up at the point where    *)
(* the subscription has delivered ChannelCapacity - 1 blocks, each with an *)
(* empty batch as its payload, before the Replayer has got the head.       *)
(***************************************************************************)
EmptyBatchBlock == Some(<<ArrayBlob(<<>>)>>)
Delivered == ChannelCapacity - 1

InitFull ==
    /\ now = Delivered
    /\ chain = [h \in 1..Delivered |-> EmptyBatchBlock]
    /\ start_height \in {Delivered, Delivered + 1}
    /\ state = State_new
    /\ state_lock = "free"
    /\ genesis_sync_complete = FALSE
    /\ pc = [genesis |-> "head", drain |-> "waiting", intake |-> "next", sync |-> "joining"]
    /\ network_height = 0
    /\ height = 0
    /\ job = [t \in Appliers |-> <<>>]
    /\ sub_next = Delivered + 1
    /\ item = NoItem
    /\ channel = [h \in 1..Delivered |-> [height |-> h, blobs |-> EmptyBatchBlock.blobs]]
    /\ processed = <<>>
    /\ sent = [h \in 1..Delivered |-> h]
    /\ errored = {}
    /\ reader = "idle"
    /\ request = [r \in Requests |-> NoRequest]
    /\ pending_transactions = <<>>
    /\ pending_lock = "free"
    /\ post_pc = "tick"
    /\ batch = <<>>
    /\ submitted = <<>>
    /\ enqueued = <<>>

(* The DA network publishes the next block, one block interval after the last. *)
NewBlock_full ==
    /\ Len(chain) < Delivered + MaxBacklog
    /\ \E b \in BlockChoices(Len(chain) + 1) : chain' = Append(chain, b)
    /\ now' = now + 1
    /\ UNCHANGED <<start_height, state, state_lock, genesis_sync_complete, pc,
                   network_height, height, job, sub_next, item, channel, processed, sent,
                   errored, api_vars>>

(* A faulty intake_cleanup: the guard of line 183 is kept while the payload is sent. *)
intake_cleanup_hold ==
    /\ pc.intake = "cleanup"
    /\ state_lock = "free"
    /\ LET r == cleanup_queue(state, now)
       IN IF r.panicked
          THEN /\ pc' = [pc EXCEPT !.intake = "panicked"]
               /\ item' = NoItem
               /\ UNCHANGED <<state, state_lock>>
          ELSE /\ state' = r.state
               /\ pc' = [pc EXCEPT !.intake = IF item.blobs.some THEN "send" ELSE "next"]
               /\ item' = IF item.blobs.some THEN item ELSE NoItem
               /\ state_lock' = IF item.blobs.some THEN "intake" ELSE "free"
    /\ UNCHANGED <<now, chain, start_height, genesis_sync_complete,
                   network_height, height, job, sub_next, channel, processed, sent, errored, api_vars>>

(* The send that goes with it: the guard is dropped after the send. *)
send_release ==
    /\ pc.intake = "send"
    /\ Len(channel) < ChannelCapacity
    /\ channel' = Append(channel, [height |-> item.height, blobs |-> item.blobs.blobs])
    /\ sent' = Append(sent, item.height)
    /\ item' = NoItem
    /\ state_lock' = "free"
    /\ pc' = [pc EXCEPT !.intake = "next"]
    /\ UNCHANGED <<now, chain, start_height, state, genesis_sync_complete,
                   network_height, height, job, sub_next, processed, errored, api_vars>>

(* A faulty blobsub_loop, made of the two. *)
blobsub_loop_hold ==
    \/ blobsub_next
    \/ blobsub_next_err
    \/ blobsub_end
    \/ intake_cleanup_hold
    \/ send_release

(* fullnode.rs:175-194, the while loop of the subscription task *)
blobsub_loop ==
    \/ blobsub_next
    \/ blobsub_next_err
    \/ blobsub_end
    \/ intake_cleanup
    \/ send

(* fullnode.rs:202-207, the while loop of the drain *)
recv_loop ==
    \/ recv
    \/ recv_closed
    \/ process_l1_block_lock("drain")
    \/ process_l1_block_tx("drain")

NextFull ==
    \/ NewBlock_full
    \/ sync_from_genesis
    \/ blobsub_loop
    \/ recv_loop
    \/ start_sync_join

SpecFull == InitFull /\ [][NextFull]_vars

(***************************************************************************)
(* The outbox: POST /send, queue_transaction and the batch-posting task.   *)
(***************************************************************************)
(* The forms of the string a request body carries as its url. *)
Forms == {"canonical", "short", "invalid"}

(* webserver.rs:30-33: the body is deserialized into a YoutubeLink, which is
   any string, the transaction is built and queue_transaction is called *)
send_tx(r) ==
    /\ request[r].pc = "none"
    /\ \A q \in Requests : q < r => request[q].pc # "none"
    /\ \E form \in Forms :
          request' = [request EXCEPT ![r] = [pc |-> "waiting", tx |-> Tx(<<r, 0>>, form)]]
    /\ UNCHANGED <<now, chain, start_height, state, state_lock, genesis_sync_complete, pc,
                   network_height, height, job, sub_next, item, channel, processed, sent,
                   errored, reader, pending_transactions, pending_lock, post_pc, batch,
                   submitted, enqueued>>

(* webserver.rs:30: a body that is no {"url": string} is turned down by the extractor *)
send_tx_rejected(r) ==
    /\ request[r].pc = "none"
    /\ \A q \in Requests : q < r => request[q].pc # "none"
    /\ request' = [request EXCEPT ![r] = [pc |-> "rejected", tx |-> Junk]]
    /\ UNCHANGED <<now, chain, start_height, state, state_lock, genesis_sync_complete, pc,
                   network_height, height, job, sub_next, item, channel, processed, sent,
                   errored, reader, pending_transactions, pending_lock, post_pc, batch,
                   submitted, enqueued>>

(* fullnode.rs:88-92: the lock is taken, the tx pushed, the guard dropped, Ok returned *)
queue_transaction(r) ==
    /\ request[r].pc = "waiting"
    /\ pending_lock = "free"
    /\ pending_transactions' = Append(pending_transactions, request[r].tx)
    /\ enqueued' = Append(enqueued, request[r].tx)
    /\ request' = [request EXCEPT ![r].pc = "ok"]
    /\ UNCHANGED <<now, chain, start_height, state, state_lock, genesis_sync_complete, pc,
                   network_height, height, job, sub_next, item, channel, processed, sent,
                   errored, reader, pending_lock, post_pc, batch, submitted>>

(* fullnode.rs:156 and 95: a tick of the interval, the lock of post_pending_batch taken *)
post_lock ==
    /\ post_pc = "tick"
    /\ pending_lock = "free"
    /\ pending_lock' = "post"
    /\ post_pc' = "locked"
    /\ UNCHANGED <<now, chain, start_height, state, state_lock, genesis_sync_complete, pc,
                   network_height, height, job, sub_next, item, channel, processed, sent,
                   errored, reader, request, pending_transactions, batch, submitted, enqueued>>

(* fullnode.rs:96-98: nothing is pending, Ok is returned and the guard dropped *)
post_empty ==
    /\ post_pc = "locked"
    /\ pending_transactions = <<>>
    /\ pending_lock' = "free"
    /\ post_pc' = "tick"
    /\ UNCHANGED <<now, chain, start_height, state, state_lock, genesis_sync_complete, pc,
                   network_height, height, job, sub_next, item, channel, processed, sent,
                   errored, reader, request, pending_transactions, batch, submitted, enqueued>>

(* fullnode.rs:100-104: the Vec is drained into a Batch, which is encoded,
   wrapped in one Blob and handed to blob_submit; the guard lives on *)
post_drain ==
    /\ post_pc = "locked"
    /\ pending_transactions # <<>>
    /\ batch' = pending_transactions
    /\ pending_transactions' = <<>>
    /\ submitted' = Append(submitted, [txs |-> pending_transactions, result |-> "in flight"])
    /\ post_pc' = "submitting"
    /\ UNCHANGED <<now, chain, start_height, state, state_lock, genesis_sync_complete, pc,
                   network_height, height, job, sub_next, item, channel, processed, sent,
                   errored, reader, request, pending_lock, enqueued>>

(* fullnode.rs:104-107: blob_submit returns Ok; the batch and the guard are dropped *)
blob_submit_ok ==
    /\ post_pc = "submitting"
    /\ submitted' = [submitted EXCEPT ![Len(submitted)].result = "Ok"]
    /\ batch' = <<>>
    /\ pending_lock' = "free"
    /\ post_pc' = "tick"
    /\ UNCHANGED <<now, chain, start_height, state, state_lock, genesis_sync_complete, pc,
                   network_height, height, job, sub_next, item, channel, processed, sent,
                   errored, reader, request, pending_transactions, enqueued>>

(* A faulty blob_submit_err: the transactions of the failed batch are put back. *)
blob_submit_err_retry ==
    /\ post_pc = "submitting"
    /\ submitted' = [submitted EXCEPT ![Len(submitted)].result = "Err"]
    /\ pending_transactions' = batch \o pending_transactions
    /\ batch' = <<>>
    /\ pending_lock' = "free"
    /\ post_pc' = "tick"
    /\ UNCHANGED <<now, chain, start_height, state, state_lock, genesis_sync_complete, pc,
                   network_height, height, job, sub_next, item, channel, processed, sent,
                   errored, reader, request, enqueued>>

(* fullnode.rs:104 and 157-159: blob_submit returns Err, the ? returns it and
   start_batch_posting logs it; the batch and the guard are dropped *)
blob_submit_err ==
    /\ post_pc = "submitting"
    /\ submitted' = [submitted EXCEPT ![Len(submitted)].result = "Err"]
    /\ batch' = <<>>
    /\ pending_lock' = "free"
    /\ post_pc' = "tick"
    /\ UNCHANGED <<now, chain, start_height, state, state_lock, genesis_sync_complete, pc,
                   network_height, height, job, sub_next, item, channel, processed, sent,
                   errored, reader, request, pending_transactions, enqueued>>

(* fullnode.rs:152-161, the batch-posting task *)
start_batch_posting ==
    \/ post_lock
    \/ post_empty
    \/ post_drain
    \/ blob_submit_ok
    \/ blob_submit_err

NextOutbox ==
    \/ \E r \in Requests : send_tx(r)
    \/ \E r \in Requests : send_tx_rejected(r)
    \/ \E r \in Requests : queue_transaction(r)
    \/ start_batch_posting

SpecOutbox == Init /\ [][NextOutbox]_vars

(***************************************************************************)
(* The node with the reads of the web server, webserver.rs:14-26.          *)
(***************************************************************************)
Routes == {"get_queue", "get_history"}

(* webserver.rs:17 and 24: a GET handler takes the State lock *)
get_lock ==
    /\ reader = "idle"
    /\ state_lock = "free"
    /\ \E route \in Routes : reader' = route
    /\ state_lock' = "reader"
    /\ UNCHANGED <<now, chain, start_height, state, genesis_sync_complete, pc, network_height,
                   height, job, sub_next, item, channel, processed, sent, errored,
                   request, pending_transactions, pending_lock, post_pc, batch,
                   submitted, enqueued>>

(* webserver.rs:18-19 and 25-26: the clone is returned and the guard dropped *)
get_reply ==
    /\ reader # "idle"
    /\ reader' = "idle"
    /\ state_lock' = "free"
    /\ UNCHANGED <<now, chain, start_height, state, genesis_sync_complete, pc, network_height,
                   height, job, sub_next, item, channel, processed, sent, errored,
                   request, pending_transactions, pending_lock, post_pc, batch,
                   submitted, enqueued>>

NextServe ==
    \/ Next
    \/ get_lock
    \/ get_reply

SpecServe == Init /\ [][NextServe]_vars

(***************************************************************************)
(* The queue state machine on its own: process_tx and cleanup_queue called *)
(* in any order, at any times, on any transactions.                        *)
(***************************************************************************)
StateTxs == {Tx(<<0, d>>, f) : d \in 0..MaxDuration, f \in {"canonical", "short", "invalid"}}

(* state.rs:70-90, one call *)
State_process_tx ==
    /\ Len(state.history) + Len(state.queue) < MaxSongs
    /\ \E tx \in StateTxs : \E r \in get_video_duration(tx.url) :
          state' = process_tx(state, tx, now, r).state
    /\ UNCHANGED <<now, chain, start_height, state_lock, genesis_sync_complete, pc,
                   network_height, height, job, sub_next, item, channel, processed, sent, errored, api_vars>>

(* state.rs:45-59, one call *)
State_cleanup_queue ==
    /\ ~cleanup_queue(state, now).panicked
    /\ state' = cleanup_queue(state, now).state
    /\ UNCHANGED <<now, chain, start_height, state_lock, genesis_sync_complete, pc,
                   network_height, height, job, sub_next, item, channel, processed, sent, errored, api_vars>>

(* The clock advances. *)
State_Tick ==
    /\ now < MaxTime
    /\ now' = now + 1
    /\ UNCHANGED <<chain, start_height, state, state_lock, genesis_sync_complete, pc,
                   network_height, height, job, sub_next, item, channel, processed, sent, errored, api_vars>>

NextState ==
    \/ State_process_tx
    \/ State_cleanup_queue
    \/ State_Tick

SpecState == Init /\ [][NextState]_vars

(***************************************************************************)
(* The node under the scheduling of the runtime: a task that can take a    *)
(* step of its own takes one. Adapter errors and the end of the            *)
(* subscription are the network's, and nothing forces them.                *)
(***************************************************************************)
GenesisSteps ==
    \/ header_network_head
    \/ blob_get_all
    \/ sync_complete
    \/ process_l1_block_lock("genesis")
    \/ process_l1_block_tx("genesis")

IntakeSteps ==
    \/ blob_subscribe
    \/ blobsub_next
    \/ intake_cleanup
    \/ send

DrainSteps ==
    \/ drain_start
    \/ recv
    \/ recv_closed
    \/ process_l1_block_lock("drain")
    \/ process_l1_block_tx("drain")

FairSpec ==
    /\ Spec
    /\ WF_vars(GenesisSteps)
    /\ WF_vars(IntakeSteps)
    /\ WF_vars(DrainSteps)
    /\ WF_vars(start_sync_join)

(***************************************************************************)
(* Properties.                                                             *)
(***************************************************************************)
Entries == state.history \o state.queue

IsPrefix(a, b) == Len(a) <= Len(b) /\ \A i \in 1..Len(a) : a[i] = b[i]

FromDrain(e) == e.src = "drain"
LiveLog == SelectSeq(processed, FromDrain)
LiveHeights == [i \in 1..Len(LiveLog) |-> LiveLog[i].height]

WasProcessed(h) == \E i \in 1..Len(processed) : processed[i].height = h
WasReceived(h) == \E i \in 1..Len(LiveLog) : LiveLog[i].height = h
InChannel(h) == \E i \in 1..Len(channel) : channel[i].height = h

(* C1: the heights whose payloads are passed to process_l1_block form a
   non-decreasing sequence, across the replay/live boundary too. *)
C1_HeightsNonDecreasing ==
    \A i, j \in 1..Len(processed) :
        i < j => processed[i].height <= processed[j].height

(* C2: once the replay has completed (genesis_sync_complete set, sync_notify
   fired), the live drain eventually passes its wait, whether it began
   waiting before or after the signal fired. A drain that has not passed it
   is yet to start (init) or parked on sync_notify.notified() (waiting). *)
C2_DrainPassesWait ==
    genesis_sync_complete ~> (pc.drain \notin {"init", "waiting"})

(* The replay is complete, the subscription has delivered every block of the
   chain and the drain has emptied the channel. *)
CaughtUp ==
    /\ pc.genesis = "done"
    /\ pc.intake = "next"
    /\ sub_next > Len(chain)
    /\ pc.drain = "recv"
    /\ channel = <<>>

(* C3: no publication is lost at the handoff: when replay and live drain have
   caught up with the chain, every height from start_height on that holds
   payloads (and that the subscription did not deliver as an error) has been
   passed to process_l1_block. *)
C3_NoPublicationLost ==
    CaughtUp =>
        \A h \in start_height..Len(chain) :
            (chain[h].some /\ h \notin errored) => WasProcessed(h)

(* C4: State holds one QueuedSong per logical transaction (each transaction
   of the chain has a link of its own), never two, also for a height that
   the replay applied and the subscription delivered again. *)
C4_OneEntryPerTransaction ==
    \A i, j \in 1..Len(Entries) :
        i # j => Entries[i].link # Entries[j].link

(* C5: nothing received through the subscription is handed to
   process_l1_block before the replay has completed, and the drain
   processes the notifications in the order the intake sent them. *)
C5_LiveAfterReplayInOrder ==
    /\ (LiveLog # <<>> \/ pc.drain \in {"lock", "apply"}) => genesis_sync_complete
    /\ IsPrefix(LiveHeights, sent)

C5_Witness ==
    /\ genesis_sync_complete
    /\ Len(LiveHeights) >= 2
    /\ Len(state.queue) >= 2

(* C6: the channel never holds more than 100 notifications, and every
   notification the intake put into it is later received by the drain. *)
C6_AcceptedIsReceived ==
    /\ [](Len(channel) <= ChannelCapacity)
    /\ \A h \in 1..MaxHeight : InChannel(h) ~> WasReceived(h)

Stopped(t) == pc[t] \in {"ended", "panicked", "returned"}

(* C7: after a fatal adapter error in sync_from_genesis the node is aborted:
   the live intake and the live drain stop running, the drain is not left
   waiting for a completion signal that never fires. *)
C7_ReplayFailureAbortsNode ==
    (pc.genesis = "failed") ~> (Stopped("intake") /\ Stopped("drain"))

(* C8: the queue is ordered by non-decreasing start_time and the playback
   windows of adjacent entries do not overlap, after any sequence of
   process_tx and cleanup_queue. *)
C8_QueueWindowsDisjoint ==
    \A i \in 1..(Len(state.queue) - 1) :
        /\ state.queue[i + 1].start_time >= state.queue[i].start_time
        /\ state.queue[i + 1].start_time >= state.queue[i].start_time + state.queue[i].duration

C8_Witness ==
    /\ Len(state.queue) >= 2
    /\ state.history # <<>>
    /\ \E i \in 1..Len(state.queue) : state.queue[i].duration > 0

(* C9: process_tx gives the new entry start_time = now when the queue is
   empty and max(now, tail.start_time + tail.duration) when it is not. *)
C9_StartTimeIsMaxOfNowAndTailEnd ==
    [][Len(state'.queue) = Len(state.queue) + 1 =>
        state'.queue[Len(state'.queue)].start_time =
            IF state.queue = <<>> THEN now
            ELSE Max(now, state.queue[Len(state.queue)].start_time
                          + state.queue[Len(state.queue)].duration)]_vars

Elapsed(e, t) == t - e.start_time >= e.duration

(* The length of the longest prefix of q whose entries have all elapsed at t. *)
ElapsedPrefix(q, t) ==
    CHOOSE k \in 0..Len(q) :
        /\ \A i \in 1..k : Elapsed(q[i], t)
        /\ k < Len(q) => ~Elapsed(q[k + 1], t)

(* C10: cleanup_queue moves exactly the longest prefix of queue entries with
   now - start_time >= duration to the tail of history, in their order, and
   leaves the rest of the queue as it was. *)
C10_EvictsElapsedPrefix ==
    [][State_cleanup_queue =>
        LET k == ElapsedPrefix(state.queue, now)
        IN /\ state'.history = state.history \o SubSeq(state.queue, 1, k)
           /\ state'.queue = SubSeq(state.queue, k + 1, Len(state.queue))]_vars

C10_Witness ==
    /\ Len(state.history) >= 1
    /\ Len(state.queue) >= 2
    /\ ~Elapsed(state.queue[1], now)

HasSong(vid) == \E i \in 1..Len(Entries) : Entries[i].link.vid = vid

(* C11: a process_tx that fails (validation or duration lookup) leaves queue
   and history as they were, a process_tx that succeeds appends one entry for
   its transaction, and in both cases the loop of process_l1_block goes on
   with the remaining transactions of the block. *)
C11_FailedApplyLeavesState ==
    [][\A t \in Appliers :
        process_l1_block_tx(t) =>
            LET tx == Head(job[t])
            IN /\ job'[t] = Tail(job[t])
               /\ ~validate_tx(tx) => state' = state
               /\ state' # state =>
                    /\ state'.history = state.history
                    /\ Len(state'.queue) = Len(state.queue) + 1
                    /\ SubSeq(state'.queue, 1, Len(state.queue)) = state.queue
                    /\ state'.queue[Len(state'.queue)].link = tx.url
                    /\ state'.queue[Len(state'.queue)].duration = VideoLength(tx.url)]_vars

(* In a block processed once, the transaction after the one with the invalid
   link failed its lookup and the transaction after that was applied. *)
C11_Witness ==
    \E h \in 1..Len(chain) :
        /\ Len(SelectSeq(processed, LAMBDA e : e.height = h)) = 1
        /\ job.genesis = <<>> /\ job.drain = <<>>
        /\ HasSong(<<h, 0>>)
        /\ ~HasSong(<<h, 1>>)

(* A payload that decodes: all its JSON values are transactions. *)
WellFormed(blob) == \A i \in 1..Len(blob.items) : blob.items[i].tag = "AddToQueue"

(* The transactions of the payloads that decode, in payload order. *)
RECURSIVE ApplicableTxs(_)
ApplicableTxs(blobs) ==
    IF blobs = <<>> THEN <<>>
    ELSE (IF WellFormed(Head(blobs)) THEN Head(blobs).items ELSE <<>>)
            \o ApplicableTxs(Tail(blobs))

(* C12: a payload that fails to decode contributes no transaction and aborts
   nothing: when a task takes up the block of a height, the transactions it
   is about to apply are those of the payloads that decode, in payload order,
   the task is not stopped, and once the block is done the task goes on to
   the next height (replay) or the next notification (drain). *)
C12_BadPayloadSkipped ==
    [][\A t \in Appliers :
        /\ (Len(processed') = Len(processed) + 1 /\ processed'[Len(processed')].src = t) =>
              LET h == processed'[Len(processed')].height
              IN /\ job'[t] = ApplicableTxs(chain[h].blobs)
                 /\ pc'[t] = "lock"
        /\ (pc[t] \in {"lock", "apply"} /\ pc'[t] # pc[t]) =>
              \/ pc[t] = "lock" /\ pc'[t] = "apply" /\ job[t] # <<>>
              \/ /\ pc'[t] = Resume(t)
                 /\ job'[t] = <<>>
                 /\ t = "genesis" => height' = height + 1]_vars

(* A block whose second payload does not decode had its third payload
   applied, and the same task took up a later height afterwards. *)
C12_Witness ==
    \E i, j \in 1..Len(processed) :
        /\ i < j
        /\ processed[i].src = processed[j].src
        /\ processed[i].height < processed[j].height
        /\ ~WellFormed(chain[processed[i].height].blobs[2])
        /\ HasSong(<<processed[i].height, 0>>)

FromGenesis(e) == e.src = "genesis"
ReplayLog == SelectSeq(processed, FromGenesis)

(* The heights of [start_height, network_height) that hold payloads were
   each replayed once, in strictly increasing order, and nothing is left to apply. *)
ReplayDone ==
    /\ \A i \in 1..Len(ReplayLog) - 1 : ReplayLog[i].height < ReplayLog[i + 1].height
    /\ {ReplayLog[i].height : i \in 1..Len(ReplayLog)}
          = {h \in start_height..network_height - 1 : chain[h].some}
    /\ height >= network_height
    /\ job.genesis = <<>>
    /\ state_lock # "genesis"

(* C16: genesis_sync_complete is false at the start, goes from false to true
   in one step of the Replayer and never back, and is true only when every
   height of [start_height, H), H the head read when replay began, has been
   fetched in strictly increasing order and applied; an empty range included. *)
C16_CaughtUpSetOnceAfterReplay ==
    /\ ~genesis_sync_complete
    /\ [][/\ genesis_sync_complete => genesis_sync_complete'
          /\ genesis_sync_complete' # genesis_sync_complete => sync_complete]_vars
    /\ [](genesis_sync_complete => ReplayDone)
    /\ []((pc.genesis = "loop" /\ start_height >= network_height) => ENABLED sync_complete)

(* Replay is complete after two heights with payloads. *)
C16_Witness == genesis_sync_complete /\ Len(ReplayLog) >= 2

(* The tasks that are inside a read-modify-write of State. *)
InsideState ==
    {t \in Appliers : pc[t] = "apply"} \cup (IF reader # "idle" THEN {"reader"} ELSE {})

(* C17: at most one task is inside State at a time: an applier is in its
   apply loop exactly while it holds the lock, a GET handler reads exactly
   while it holds the lock, the eviction sweep of the intake runs only with
   the lock free and gives it back, and the lock is never left held: its
   holder is a task that is inside State and can take its next step. *)
C17_StateLockExclusive ==
    /\ [](/\ Cardinality(InsideState) <= 1
          /\ InsideState = IF state_lock = "free" THEN {} ELSE {state_lock}
          /\ \A t \in Appliers : state_lock = t => ENABLED process_l1_block_tx(t)
          /\ state_lock = "reader" => ENABLED get_reply)
    /\ [][intake_cleanup => (state_lock = "free" /\ state_lock' = "free")]_vars

(* The Replayer waits for the lock with transactions to apply while a GET
   handler reads, after the eviction sweep has run at least once. *)
C17_Witness ==
    /\ reader # "idle"
    /\ pc.genesis = "lock"
    /\ job.genesis # <<>>
    /\ sent # <<>>

(* C18: history only grows at its tail and entries are conserved: a step
   either leaves history ++ queue as it is, moving entries from the front of
   queue to the tail of history or nothing, or is a successful process_tx
   that appends one new entry to queue and leaves history alone; no entry is
   ever removed or duplicated. *)
C18_EntriesConserved ==
    [][/\ IsPrefix(state.history, state'.history)
       /\ IsPrefix(Entries, Entries')
       /\ Len(Entries') <= Len(Entries) + 1
       /\ state'.history # state.history => (State_cleanup_queue /\ Entries' = Entries)
       /\ Entries' # Entries =>
            /\ State_process_tx
            /\ state'.history = state.history
            /\ state'.queue = Append(state.queue, Entries'[Len(Entries')])]_vars

(* Two entries have moved to history and a third waits in the queue. *)
C18_Witness == Len(state.history) >= 2 /\ Len(state.queue) >= 1

(* C19: with a clock that never goes back, the front entry of the queue
   never starts in the future, so the duration_since(...).unwrap() of
   cleanup_queue does not fail. *)
C19_FrontHasStarted ==
    /\ state.queue # <<>> => state.queue[1].start_time <= now
    /\ ~cleanup_queue(state, now).panicked

(* The front entry plays after an eviction, and the entry behind it starts
   in the future. *)
C19_Witness ==
    /\ state.history # <<>>
    /\ Len(state.queue) >= 2
    /\ state.queue[1].start_time < now
    /\ state.queue[2].start_time > now

(* The transactions of a sequence of batches, in order. *)
RECURSIVE Flatten(_)
Flatten(batches) ==
    IF batches = <<>> THEN <<>> ELSE Head(batches).txs \o Flatten(Tail(batches))

(* C13: post_pending_batch takes the whole outbox at once and leaves it
   empty; the batches handed to blob_submit, one after the other, followed by
   what is pending, are exactly the enqueued transactions in enqueue order,
   each one once; no empty batch is submitted; and a failed submit puts
   nothing back into the outbox. *)
C13_OutboxTakenOnce ==
    /\ [](/\ Flatten(submitted) \o pending_transactions = enqueued
          /\ \A i \in 1..Len(submitted) : submitted[i].txs # <<>>
          /\ \A i, j \in 1..Len(enqueued) : enqueued[i] = enqueued[j] => i = j)
    /\ [][/\ post_drain =>
               /\ pending_transactions' = <<>>
               /\ Len(submitted') = Len(submitted) + 1
               /\ submitted'[Len(submitted')].txs = pending_transactions
          /\ Len(submitted') > Len(submitted) => post_drain
          /\ blob_submit_err => pending_transactions' = pending_transactions]_vars

(* A second batch was submitted after a first one that failed, another transaction is
   pending, and no submit is in flight. *)
C13_Witness ==
    /\ Len(submitted) >= 2
    /\ submitted[1].result = "Err"
    /\ pending_transactions # <<>>
    /\ post_pc = "tick"

(* C14: queue_transaction never waits for a submit in flight: a request that
   has called queue_transaction can complete it even while blob_submit has
   not returned. *)
C14_EnqueueNotBlockedBySubmit ==
    \A r \in Requests :
        (request[r].pc = "waiting" /\ post_pc = "submitting") => ENABLED queue_transaction(r)

(* C15: every transaction in the outbox, and in every submitted batch,
   carries a link that passes validation and is in canonical form. *)
C15_OutboxLinksValid ==
    \A i \in 1..Len(enqueued) :
        /\ validate_tx(enqueued[i])
        /\ enqueued[i].url.form = "canonical"

ReplayUnderWay == ~genesis_sync_complete /\ pc.genesis \notin {"done", "failed"}

(* C20: the intake does not hold the State lock while it waits to send into
   the channel, so before replay completion the lock is free or held by the
   Replayer itself, the Replayer always has a step it can take, whether the
   channel is full or not, and intake, drain and Replayer are never all
   blocked. *)
C20_ReplayerNeverBlocked ==
    ReplayUnderWay =>
        /\ state_lock \in {"free", "genesis"}
        /\ pc.intake = "send" => state_lock # "intake"
        /\ ENABLED sync_from_genesis
        /\ ENABLED (sync_from_genesis \/ blobsub_loop \/ recv_loop)

(* The channel is full, the intake waits to send the next payload, the drain
   waits for the completion signal and the Replayer is about to take the
   lock for the transactions of a block. *)
C20_Witness ==
    /\ Len(channel) = ChannelCapacity
    /\ pc.intake = "send"
    /\ pc.drain = "waiting"
    /\ pc.genesis = "lock"
    /\ job.genesis # <<>>

====
